---- MODULE Spec2Model ----
(***************************************************************************)
(* State-machine model of OptimisticArenaContract                          *)
(* (src/contract/optimistic_arena_contract.py).                            *)
(*                                                                         *)
(* Python dicts whose iteration order the code observes (submissions,      *)
(* ai_scores_proposed, ai_scores, final_scores) are sequences of [k, v]    *)
(* items in insertion order.  votes and season_xp are only ever read by    *)
(* key and are functions.  Scorecards are mutable dict objects that two    *)
(* dicts may share, so they live in a heap and the dicts hold addresses.   *)
(* A text is represented by its length, the only thing the code reads.     *)
(* finalize_round is called with integer-valued weights, for which the     *)
(* floating-point sum of the code is exact; the defaults 0.6 and 0.4 are   *)
(* not among the inputs.                                                   *)
(* call and result record the last call, the arguments the properties      *)
(* read, the answers the mocked oracles gave it and the exception it       *)
(* raised; steps counts the calls made.                                    *)
(***************************************************************************)
EXTENDS Integers, Sequences, FiniteSets, TLC

VARIABLES sessions, season_xp, next_session_id, heap, call, result, steps

vars == <<sessions, season_xp, next_session_id, heap, call, result, steps>>

\* what the contract object holds
state == <<sessions, season_xp, next_session_id, heap>>

-----------------------------------------------------------------------------
\* Bounds of the model
MaxSteps == 9
MaxSessions == 1

\* Inputs the callers and the mocked oracles draw from
Players == {"A", "B"}
Hosts == {"H"}
SessionIds == 1..MaxSessions
Capacities == {-1, 1, 2}
Texts == {280, 281}
Prompts == {"Describe GenLayer to a five-year-old."}
Tolerances == {2, 3}
Bonds == {-1, 2}
Weights == {<<6, 4>>}

\* Program constants
MaxAnswerLen == 280
Correction == 2
BaseXP == 5
BonusStart == 10
BonusStep == 2

Card(c, r, l) == [clarity |-> c, creativity |-> r, relevance |-> l, total |-> c + r + l]

\* _mock_ai_score_leader draws each dimension from 4..10
LeaderCards == {Card(6, 6, 6), Card(8, 7, 9)}
\* _mock_ai_score_committee draws each dimension from 3..10
CommitteeCards == {Card(9, 8, 9), Card(6, 6, 3)}

-----------------------------------------------------------------------------
\* dict helpers
EmptyMap == [x \in {} |-> 0]

Keys(d) == {d[i].k : i \in DOMAIN d}

Has(d, key) == key \in Keys(d)

Get(d, key) == d[CHOOSE i \in DOMAIN d : d[i].k = key].v

Put(d, key, val) ==
    IF Has(d, key)
    THEN [i \in DOMAIN d |-> IF d[i].k = key THEN [k |-> key, v |-> val] ELSE d[i]]
    ELSE Append(d, [k |-> key, v |-> val])

\* m.get(key, 0)
GetOr0(m, key) == IF key \in DOMAIN m THEN m[key] ELSE 0

\* m[key] = val
MapPut(m, key, val) == [x \in DOMAIN m \cup {key} |-> IF x = key THEN val ELSE m[x]]

InSeq(s, x) == \E i \in DOMAIN s : s[i] = x

Abs(x) == IF x < 0 THEN -x ELSE x

Max(a, b) == IF a >= b THEN a ELSE b

-----------------------------------------------------------------------------
\* heap of scorecard objects
RECURSIVE FreshAddrs(_, _)
FreshAddrs(used, n) ==
    IF n = 0 THEN <<>>
    ELSE LET a == CHOOSE x \in 1..(Cardinality(used) + 1) : x \notin used
         IN  <<a>> \o FreshAddrs(used \cup {a}, n - 1)

Refs(sess) ==
    UNION {{sess[s].ai_scores_proposed[i].v : i \in DOMAIN sess[s].ai_scores_proposed}
           \cup {sess[s].ai_scores[i].v : i \in DOMAIN sess[s].ai_scores} : s \in DOMAIN sess}

\* objects no dict refers to any more are freed
Collect(h, sess) == [a \in DOMAIN h \cap Refs(sess) |-> h[a]]

-----------------------------------------------------------------------------
NoCall == [op |-> "none", sid |-> 0, player |-> "-", target |-> "-", tol |-> 0,
           committee |-> <<>>, decisions |-> <<>>, weights |-> <<>>]

Init ==
    /\ sessions = EmptyMap
    /\ season_xp = EmptyMap
    /\ next_session_id = 1
    /\ heap = EmptyMap
    /\ call = NoCall
    /\ result = "ok"
    /\ steps = 0

\* a call that raises: the contract is left as it is at the raise
Raise(c, msg) ==
    /\ call' = c
    /\ result' = msg
    /\ steps' = steps + 1

Return(c) ==
    /\ call' = c
    /\ result' = "ok"
    /\ steps' = steps + 1

Known(sid) == sid \in DOMAIN sessions

-----------------------------------------------------------------------------
\* Session management
NewSession(host, max_players) ==
    [host |-> host, players |-> <<>>, max_players |-> max_players, round |-> 0,
     prompt |-> "None", submissions |-> <<>>, votes |-> EmptyMap,
     ai_scores_proposed |-> <<>>, ai_scores |-> <<>>, final_scores |-> <<>>,
     appeals |-> <<>>, od_accepted |-> FALSE]

create_session(host, max_players) ==
    /\ steps < MaxSteps
    /\ next_session_id <= MaxSessions
    /\ next_session_id' = next_session_id + 1
    /\ sessions' = MapPut(sessions, next_session_id, NewSession(host, max_players))
    /\ UNCHANGED <<season_xp, heap>>
    /\ Return([NoCall EXCEPT !.op = "create_session", !.sid = next_session_id])

join_session(sid, player) ==
    LET c == [NoCall EXCEPT !.op = "join_session", !.sid = sid, !.player = player]
    IN  /\ steps < MaxSteps
        /\ IF ~Known(sid)
           THEN Raise(c, "KeyError") /\ UNCHANGED state
           ELSE IF InSeq(sessions[sid].players, player)
           THEN Return(c) /\ UNCHANGED state
           ELSE IF Len(sessions[sid].players) >= sessions[sid].max_players
           THEN Raise(c, "Session is full") /\ UNCHANGED state
           ELSE /\ sessions' = [sessions EXCEPT ![sid].players = Append(@, player)]
                /\ UNCHANGED <<season_xp, next_session_id, heap>>
                /\ Return(c)

-----------------------------------------------------------------------------
\* Round flow
\* a variant that also starts the ledger afresh
start_round_new_ledger(sid, prompt) ==
    LET c == [NoCall EXCEPT !.op = "start_round", !.sid = sid]
    IN  /\ steps < MaxSteps
        /\ IF ~Known(sid)
           THEN Raise(c, "KeyError") /\ UNCHANGED state
           ELSE LET reset == [sessions EXCEPT
                                ![sid].round = @ + 1,
                                ![sid].prompt = prompt,
                                ![sid].submissions = <<>>,
                                ![sid].votes = EmptyMap,
                                ![sid].ai_scores_proposed = <<>>,
                                ![sid].ai_scores = <<>>,
                                ![sid].final_scores = <<>>,
                                ![sid].appeals = <<>>,
                                ![sid].od_accepted = FALSE]
                IN  /\ sessions' = reset
                    /\ heap' = Collect(heap, reset)
                    /\ season_xp' = EmptyMap
                    /\ UNCHANGED next_session_id
                    /\ Return(c)

\* a variant that keeps the pending appeals of the round before
start_round_keeps_appeals(sid, prompt) ==
    LET c == [NoCall EXCEPT !.op = "start_round", !.sid = sid]
    IN  /\ steps < MaxSteps
        /\ IF ~Known(sid)
           THEN Raise(c, "KeyError") /\ UNCHANGED state
           ELSE LET reset == [sessions EXCEPT
                                ![sid].round = @ + 1,
                                ![sid].prompt = prompt,
                                ![sid].submissions = <<>>,
                                ![sid].votes = EmptyMap,
                                ![sid].ai_scores_proposed = <<>>,
                                ![sid].ai_scores = <<>>,
                                ![sid].final_scores = <<>>,
                                ![sid].od_accepted = FALSE]
                IN  /\ sessions' = reset
                    /\ heap' = Collect(heap, reset)
                    /\ UNCHANGED <<season_xp, next_session_id>>
                    /\ Return(c)

start_round(sid, prompt) ==
    LET c == [NoCall EXCEPT !.op = "start_round", !.sid = sid]
    IN  /\ steps < MaxSteps
        /\ IF ~Known(sid)
           THEN Raise(c, "KeyError") /\ UNCHANGED state
           ELSE LET reset == [sessions EXCEPT
                                ![sid].round = @ + 1,
                                ![sid].prompt = prompt,
                                ![sid].submissions = <<>>,
                                ![sid].votes = EmptyMap,
                                ![sid].ai_scores_proposed = <<>>,
                                ![sid].ai_scores = <<>>,
                                ![sid].final_scores = <<>>,
                                ![sid].appeals = <<>>,
                                ![sid].od_accepted = FALSE]
                IN  /\ sessions' = reset
                    /\ heap' = Collect(heap, reset)
                    /\ UNCHANGED <<season_xp, next_session_id>>
                    /\ Return(c)

\* a variant that stores the answer before it checks the membership
submit_answer_store_first(sid, player, text) ==
    LET c == [NoCall EXCEPT !.op = "submit_answer", !.sid = sid]
    IN  /\ steps < MaxSteps
        /\ IF text > MaxAnswerLen
           THEN Raise(c, "Answer too long (max 280 chars)") /\ UNCHANGED state
           ELSE IF ~Known(sid)
           THEN Raise(c, "KeyError") /\ UNCHANGED state
           ELSE /\ sessions' = [sessions EXCEPT ![sid].submissions = Put(@, player, text)]
                /\ UNCHANGED <<season_xp, next_session_id, heap>>
                /\ IF ~InSeq(sessions[sid].players, player)
                   THEN Raise(c, "Player must join the session first")
                   ELSE Return(c)

submit_answer(sid, player, text) ==
    LET c == [NoCall EXCEPT !.op = "submit_answer", !.sid = sid]
    IN  /\ steps < MaxSteps
        /\ IF text > MaxAnswerLen
           THEN Raise(c, "Answer too long (max 280 chars)") /\ UNCHANGED state
           ELSE IF ~Known(sid)
           THEN Raise(c, "KeyError") /\ UNCHANGED state
           ELSE IF ~InSeq(sessions[sid].players, player)
           THEN Raise(c, "Player must join the session first") /\ UNCHANGED state
           ELSE /\ sessions' = [sessions EXCEPT ![sid].submissions = Put(@, player, text)]
                /\ UNCHANGED <<season_xp, next_session_id, heap>>
                /\ Return(c)

\* a variant that accepts a vote for any member
vote_any_member(sid, voter, target_player) ==
    LET c == [NoCall EXCEPT !.op = "vote", !.sid = sid, !.player = voter,
                            !.target = target_player]
    IN  /\ steps < MaxSteps
        /\ IF ~Known(sid)
           THEN Raise(c, "KeyError") /\ UNCHANGED state
           ELSE IF ~InSeq(sessions[sid].players, voter)
                   \/ ~InSeq(sessions[sid].players, target_player)
           THEN Raise(c, "Both voter and target must be in session") /\ UNCHANGED state
           ELSE /\ sessions' = [sessions EXCEPT ![sid].votes =
                                    MapPut(@, target_player, GetOr0(@, target_player) + 1)]
                /\ UNCHANGED <<season_xp, next_session_id, heap>>
                /\ Return(c)

vote(sid, voter, target_player) ==
    LET c == [NoCall EXCEPT !.op = "vote", !.sid = sid, !.player = voter,
                            !.target = target_player]
    IN  /\ steps < MaxSteps
        /\ IF ~Known(sid)
           THEN Raise(c, "KeyError") /\ UNCHANGED state
           ELSE IF ~InSeq(sessions[sid].players, voter)
                   \/ ~InSeq(sessions[sid].players, target_player)
           THEN Raise(c, "Both voter and target must be in session") /\ UNCHANGED state
           ELSE IF ~Has(sessions[sid].submissions, target_player)
           THEN Raise(c, "Target player has no submission") /\ UNCHANGED state
           ELSE /\ sessions' = [sessions EXCEPT ![sid].votes =
                                    MapPut(@, target_player, GetOr0(@, target_player) + 1)]
                /\ UNCHANGED <<season_xp, next_session_id, heap>>
                /\ Return(c)

-----------------------------------------------------------------------------
\* AI scoring + Optimistic Democracy
\* a variant that leaves the acceptance flag as it was
propose_ai_scores_keeps_flag(sid, cards) ==
    LET c == [NoCall EXCEPT !.op = "propose_ai_scores", !.sid = sid]
    IN  /\ steps < MaxSteps
        /\ IF ~Known(sid)
           THEN Raise(c, "KeyError") /\ UNCHANGED state
           ELSE LET subs == sessions[sid].submissions
                    n == Len(subs)
                    addrs == FreshAddrs(DOMAIN heap, n)
                    proposed == [i \in 1..n |-> [k |-> subs[i].k, v |-> addrs[i]]]
                    made == [a \in DOMAIN heap \cup {addrs[i] : i \in 1..n} |->
                                IF a \in DOMAIN heap THEN heap[a]
                                ELSE cards[CHOOSE i \in 1..n : addrs[i] = a]]
                    after == [sessions EXCEPT ![sid].ai_scores_proposed = proposed]
                IN  /\ sessions' = after
                    /\ heap' = Collect(made, after)
                    /\ UNCHANGED <<season_xp, next_session_id>>
                    /\ Return(c)

propose_ai_scores(sid, cards) ==
    LET c == [NoCall EXCEPT !.op = "propose_ai_scores", !.sid = sid]
    IN  /\ steps < MaxSteps
        /\ IF ~Known(sid)
           THEN Raise(c, "KeyError") /\ UNCHANGED state
           ELSE LET subs == sessions[sid].submissions
                    n == Len(subs)
                    addrs == FreshAddrs(DOMAIN heap, n)
                    proposed == [i \in 1..n |-> [k |-> subs[i].k, v |-> addrs[i]]]
                    made == [a \in DOMAIN heap \cup {addrs[i] : i \in 1..n} |->
                                IF a \in DOMAIN heap THEN heap[a]
                                ELSE cards[CHOOSE i \in 1..n : addrs[i] = a]]
                    after == [sessions EXCEPT ![sid].ai_scores_proposed = proposed,
                                              ![sid].od_accepted = FALSE]
                IN  /\ sessions' = after
                    /\ heap' = Collect(made, after)
                    /\ UNCHANGED <<season_xp, next_session_id>>
                    /\ Return(c)

\* a variant that leaves the last dimension out of the comparison
equivalent_scores_two_dims(a, b, tol) ==
    /\ Abs(a.clarity - b.clarity) <= tol
    /\ Abs(a.creativity - b.creativity) <= tol

equivalent_scores(a, b, tol) ==
    /\ Abs(a.clarity - b.clarity) <= tol
    /\ Abs(a.creativity - b.creativity) <= tol
    /\ Abs(a.relevance - b.relevance) <= tol

\* a variant that never reports a missing proposal
no_proposal_unchecked(sess) == FALSE

\* not session["ai_scores_proposed"]
no_proposal(sess) == sess.ai_scores_proposed = <<>>

\* a variant that consumes the proposal it has verified
committee_verify_scores_consumes(sid, tolerance, committee) ==
    LET c == [NoCall EXCEPT !.op = "committee_verify_scores", !.sid = sid,
                            !.tol = tolerance, !.committee = committee]
    IN  /\ steps < MaxSteps
        /\ IF ~Known(sid)
           THEN Raise([c EXCEPT !.committee = <<>>], "KeyError") /\ UNCHANGED state
           ELSE IF no_proposal(sessions[sid])
           THEN Raise([c EXCEPT !.committee = <<>>], "No leader proposal to verify")
                /\ UNCHANGED state
           ELSE LET proposal == sessions[sid].ai_scores_proposed
                    n == Len(proposal)
                    addrs == FreshAddrs(DOMAIN heap, n)
                    accepted == [i \in 1..n |->
                                    [k |-> proposal[i].k,
                                     v |-> IF equivalent_scores(heap[proposal[i].v],
                                                                committee[i], tolerance)
                                           THEN proposal[i].v
                                           ELSE addrs[i]]]
                    made == [a \in DOMAIN heap \cup {addrs[i] : i \in 1..n} |->
                                IF a \in DOMAIN heap THEN heap[a]
                                ELSE committee[CHOOSE i \in 1..n : addrs[i] = a]]
                    after == [sessions EXCEPT ![sid].ai_scores = accepted,
                                              ![sid].ai_scores_proposed = <<>>,
                                              ![sid].od_accepted = TRUE]
                IN  /\ IF \E i \in 1..n : ~Has(sessions[sid].submissions, proposal[i].k)
                       THEN Raise(c, "KeyError") /\ UNCHANGED state
                       ELSE /\ sessions' = after
                            /\ heap' = Collect(made, after)
                            /\ UNCHANGED <<season_xp, next_session_id>>
                            /\ Return(c)

committee_verify_scores(sid, tolerance, committee) ==
    LET c == [NoCall EXCEPT !.op = "committee_verify_scores", !.sid = sid,
                            !.tol = tolerance, !.committee = committee]
    IN  /\ steps < MaxSteps
        /\ IF ~Known(sid)
           THEN Raise([c EXCEPT !.committee = <<>>], "KeyError") /\ UNCHANGED state
           ELSE IF no_proposal(sessions[sid])
           THEN Raise([c EXCEPT !.committee = <<>>], "No leader proposal to verify")
                /\ UNCHANGED state
           ELSE LET proposal == sessions[sid].ai_scores_proposed
                    n == Len(proposal)
                    addrs == FreshAddrs(DOMAIN heap, n)
                    accepted == [i \in 1..n |->
                                    [k |-> proposal[i].k,
                                     v |-> IF equivalent_scores(heap[proposal[i].v],
                                                                committee[i], tolerance)
                                           THEN proposal[i].v
                                           ELSE addrs[i]]]
                    made == [a \in DOMAIN heap \cup {addrs[i] : i \in 1..n} |->
                                IF a \in DOMAIN heap THEN heap[a]
                                ELSE committee[CHOOSE i \in 1..n : addrs[i] = a]]
                    after == [sessions EXCEPT ![sid].ai_scores = accepted,
                                              ![sid].od_accepted = TRUE]
                IN  /\ IF \E i \in 1..n : ~Has(sessions[sid].submissions, proposal[i].k)
                       THEN Raise(c, "KeyError") /\ UNCHANGED state
                       ELSE /\ sessions' = after
                            /\ heap' = Collect(made, after)
                            /\ UNCHANGED <<season_xp, next_session_id>>
                            /\ Return(c)

\* a variant that accepts a challenge against any target
challenge_score_any_target(sid, challenger, target_player, bond_xp) ==
    LET c == [NoCall EXCEPT !.op = "challenge_score", !.sid = sid]
    IN  /\ steps < MaxSteps
        /\ IF ~Known(sid)
           THEN Raise(c, "KeyError") /\ UNCHANGED state
           ELSE /\ sessions' = [sessions EXCEPT ![sid].appeals =
                                    Append(@, [challenger |-> challenger,
                                               target |-> target_player,
                                               bond |-> bond_xp])]
                /\ UNCHANGED <<season_xp, next_session_id, heap>>
                /\ Return(c)

challenge_score(sid, challenger, target_player, bond_xp) ==
    LET c == [NoCall EXCEPT !.op = "challenge_score", !.sid = sid]
    IN  /\ steps < MaxSteps
        /\ IF ~Known(sid)
           THEN Raise(c, "KeyError") /\ UNCHANGED state
           ELSE IF ~Has(sessions[sid].ai_scores, target_player)
           THEN Raise(c, "No accepted score to challenge") /\ UNCHANGED state
           ELSE /\ sessions' = [sessions EXCEPT ![sid].appeals =
                                    Append(@, [challenger |-> challenger,
                                               target |-> target_player,
                                               bond |-> bond_xp])]
                /\ UNCHANGED <<season_xp, next_session_id, heap>>
                /\ Return(c)

\* a variant that slashes the bond without the floor at zero
ResolveOneNoFloor(appeal, ai_was_wrong, ai_scores, st) ==
    IF ai_was_wrong
    THEN IF ~Has(ai_scores, appeal.target)
         THEN [st EXCEPT !.err = TRUE]
         ELSE [st EXCEPT !.heap[Get(ai_scores, appeal.target)].total = @ + Correction,
                         !.xp = MapPut(@, appeal.challenger,
                                       GetOr0(@, appeal.challenger) + appeal.bond)]
    ELSE [st EXCEPT !.xp = MapPut(@, appeal.challenger,
                                  GetOr0(@, appeal.challenger) - appeal.bond)]

\* the body of the loop of resolve_appeals for one appeal, given the mock decision
ResolveOne(appeal, ai_was_wrong, ai_scores, st) ==
    IF ai_was_wrong
    THEN IF ~Has(ai_scores, appeal.target)
         THEN [st EXCEPT !.err = TRUE]
         ELSE [st EXCEPT !.heap[Get(ai_scores, appeal.target)].total = @ + Correction,
                         !.xp = MapPut(@, appeal.challenger,
                                       GetOr0(@, appeal.challenger) + appeal.bond)]
    ELSE [st EXCEPT !.xp = MapPut(@, appeal.challenger,
                                  Max(0, GetOr0(@, appeal.challenger) - appeal.bond))]

\* a variant that stops one appeal short of the end of the list
RECURSIVE ResolveLoopSkipLast(_, _, _, _, _)
ResolveLoopSkipLast(appeals, decisions, i, ai_scores, st) ==
    IF i >= Len(appeals) \/ st.err THEN st
    ELSE ResolveLoopSkipLast(appeals, decisions, i + 1, ai_scores,
                             ResolveOne(appeals[i], decisions[i], ai_scores, st))

RECURSIVE ResolveLoop(_, _, _, _, _)
ResolveLoop(appeals, decisions, i, ai_scores, st) ==
    IF i > Len(appeals) \/ st.err THEN st
    ELSE ResolveLoop(appeals, decisions, i + 1, ai_scores,
                     ResolveOne(appeals[i], decisions[i], ai_scores, st))

resolve_appeals(sid, decisions) ==
    LET c == [NoCall EXCEPT !.op = "resolve_appeals", !.sid = sid, !.decisions = decisions]
    IN  /\ steps < MaxSteps
        /\ IF ~Known(sid)
           THEN Raise([c EXCEPT !.decisions = <<>>], "KeyError") /\ UNCHANGED state
           ELSE LET r == ResolveLoop(sessions[sid].appeals, decisions, 1,
                                     sessions[sid].ai_scores,
                                     [heap |-> heap, xp |-> season_xp, err |-> FALSE])
                IN  /\ heap' = r.heap
                    /\ season_xp' = r.xp
                    /\ UNCHANGED next_session_id
                    /\ IF r.err
                       THEN Raise(c, "KeyError") /\ UNCHANGED sessions
                       ELSE /\ sessions' = [sessions EXCEPT ![sid].appeals = <<>>]
                            /\ Return(c)

-----------------------------------------------------------------------------
\* Finalization
\* a variant that falls back on the proposed scorecard of a player without an
\* accepted one
RECURSIVE FinalLoopFromProposal(_, _, _, _, _, _)
FinalLoopFromProposal(sess, i, human_weight, ai_weight, h, final_scores) ==
    IF i > Len(sess.submissions) THEN final_scores
    ELSE LET player == sess.submissions[i].k
             human_score == GetOr0(sess.votes, player)
             ai_score == IF Has(sess.ai_scores, player)
                         THEN h[Get(sess.ai_scores, player)].total
                         ELSE IF Has(sess.ai_scores_proposed, player)
                         THEN h[Get(sess.ai_scores_proposed, player)].total
                         ELSE 0
             final == human_weight * human_score + ai_weight * ai_score
         IN  FinalLoopFromProposal(sess, i + 1, human_weight, ai_weight, h,
                                   Put(final_scores, player, final))

\* a variant that applies the two weights the wrong way round
RECURSIVE FinalLoopSwapped(_, _, _, _, _, _)
FinalLoopSwapped(sess, i, human_weight, ai_weight, h, final_scores) ==
    IF i > Len(sess.submissions) THEN final_scores
    ELSE LET player == sess.submissions[i].k
             human_score == GetOr0(sess.votes, player)
             ai_score == IF Has(sess.ai_scores, player)
                         THEN h[Get(sess.ai_scores, player)].total
                         ELSE 0
             final == ai_weight * human_score + human_weight * ai_score
         IN  FinalLoopSwapped(sess, i + 1, human_weight, ai_weight, h,
                              Put(final_scores, player, final))

RECURSIVE FinalLoop(_, _, _, _, _, _)
FinalLoop(sess, i, human_weight, ai_weight, h, final_scores) ==
    IF i > Len(sess.submissions) THEN final_scores
    ELSE LET player == sess.submissions[i].k
             human_score == GetOr0(sess.votes, player)
             ai_score == IF Has(sess.ai_scores, player)
                         THEN h[Get(sess.ai_scores, player)].total
                         ELSE 0
             final == human_weight * human_score + ai_weight * ai_score
         IN  FinalLoop(sess, i + 1, human_weight, ai_weight, h,
                       Put(final_scores, player, final))

\* position of item i in sorted(items, key = value, reverse = True), a stable sort
RankIndex(final_scores, i) ==
    Cardinality({j \in DOMAIN final_scores : final_scores[j].v > final_scores[i].v})
    + Cardinality({j \in 1..(i - 1) : final_scores[j].v = final_scores[i].v})

Ranked(final_scores) ==
    [r \in DOMAIN final_scores |->
        final_scores[CHOOSE i \in DOMAIN final_scores : RankIndex(final_scores, i) = r - 1]]

\* a variant without the floor at zero
BonusNoFloor(rank) == BonusStart - rank * BonusStep

Bonus(rank) == Max(0, BonusStart - rank * BonusStep)

RECURSIVE XpLoop(_, _, _)
XpLoop(ranked, r, xp) ==
    IF r > Len(ranked) THEN xp
    ELSE XpLoop(ranked, r + 1,
                MapPut(xp, ranked[r].k, GetOr0(xp, ranked[r].k) + BaseXP + Bonus(r - 1)))

distribute_xp(final_scores, xp) == XpLoop(Ranked(final_scores), 1, xp)

finalize_round(sid, human_weight, ai_weight) ==
    LET c == [NoCall EXCEPT !.op = "finalize_round", !.sid = sid,
                            !.weights = <<human_weight, ai_weight>>]
    IN  /\ steps < MaxSteps
        /\ IF ~Known(sid)
           THEN Raise(c, "KeyError") /\ UNCHANGED state
           ELSE LET fs == FinalLoop(sessions[sid], 1, human_weight, ai_weight, heap,
                                    sessions[sid].final_scores)
                IN  /\ sessions' = [sessions EXCEPT ![sid].final_scores = fs]
                    /\ season_xp' = distribute_xp(fs, season_xp)
                    /\ UNCHANGED <<next_session_id, heap>>
                    /\ Return(c)

-----------------------------------------------------------------------------
\* how many oracle answers a call consumes
NumSubmissions(sid) == IF Known(sid) THEN Len(sessions[sid].submissions) ELSE 0

NumProposed(sid) == IF Known(sid) THEN Len(sessions[sid].ai_scores_proposed) ELSE 0

NumAppeals(sid) == IF Known(sid) THEN Len(sessions[sid].appeals) ELSE 0

Next ==
    \/ \E host \in Hosts, cap \in Capacities : create_session(host, cap)
    \/ \E sid \in SessionIds, p \in Players : join_session(sid, p)
    \/ \E sid \in SessionIds, pr \in Prompts : start_round(sid, pr)
    \/ \E sid \in SessionIds, p \in Players, t \in Texts : submit_answer(sid, p, t)
    \/ \E sid \in SessionIds, v \in Players, t \in Players : vote(sid, v, t)
    \/ \E sid \in SessionIds :
          \E cards \in [1..NumSubmissions(sid) -> LeaderCards] : propose_ai_scores(sid, cards)
    \/ \E sid \in SessionIds, tol \in Tolerances :
          \E cs \in [1..NumProposed(sid) -> CommitteeCards] :
              committee_verify_scores(sid, tol, cs)
    \/ \E sid \in SessionIds, ch \in Players, t \in Players, b \in Bonds :
          challenge_score(sid, ch, t, b)
    \/ \E sid \in SessionIds :
          \E ds \in [1..NumAppeals(sid) -> BOOLEAN] : resolve_appeals(sid, ds)
    \/ \E sid \in SessionIds, w \in Weights : finalize_round(sid, w[1], w[2])

Spec == Init /\ [][Next]_vars

-----------------------------------------------------------------------------
\* Ranking of a full table: the contract after create_session("H"), with the
\* default capacity, seven joins, seven answers in the order of RankPlayers and
\* any number of votes up to MaxRankVotes for each player; from there
\* finalize_round is called again and again.
MaxRankVotes == 2
DefaultMaxPlayers == 20

RankPlayers == <<"P1", "P2", "P3", "P4", "P5", "P6", "P7">>

RankVotes ==
    UNION {[voted -> 1..MaxRankVotes] :
              voted \in SUBSET {RankPlayers[i] : i \in DOMAIN RankPlayers}}

InitRank ==
    /\ \E votes \in RankVotes :
          sessions = (1 :> [NewSession("H", DefaultMaxPlayers) EXCEPT
                              !.players = RankPlayers,
                              !.submissions = [i \in DOMAIN RankPlayers |->
                                                 [k |-> RankPlayers[i], v |-> MaxAnswerLen]],
                              !.votes = votes])
    /\ season_xp = EmptyMap
    /\ next_session_id = 2
    /\ heap = EmptyMap
    /\ call = NoCall
    /\ result = "ok"
    /\ steps = 0

NextRank == \E w \in Weights : finalize_round(1, w[1], w[2])

SpecRank == InitRank /\ [][NextRank]_vars

-----------------------------------------------------------------------------
\* Properties

Verified == call.op = "committee_verify_scores" /\ result = "ok"

Resolved == call.op = "resolve_appeals" /\ result = "ok"

SumOfDimensions(card) == card.clarity + card.creativity + card.relevance

\* C1: after committee_verify_scores, every player of the proposal holds an
\* accepted scorecard; it is the leader's proposed scorecard when the proposed and
\* the committee value differ by at most the tolerance on each of clarity,
\* creativity and relevance, and the committee's scorecard otherwise.
C1_EquivalenceRule ==
    Verified =>
        LET s == sessions[call.sid]
        IN  /\ Len(s.ai_scores) = Len(s.ai_scores_proposed)
            /\ Len(call.committee) = Len(s.ai_scores_proposed)
            /\ \A i \in DOMAIN s.ai_scores_proposed :
                  LET proposed == heap[s.ai_scores_proposed[i].v]
                      recomputed == call.committee[i]
                      accepted == heap[s.ai_scores[i].v]
                      within == /\ proposed.clarity - recomputed.clarity <= call.tol
                                /\ recomputed.clarity - proposed.clarity <= call.tol
                                /\ proposed.creativity - recomputed.creativity <= call.tol
                                /\ recomputed.creativity - proposed.creativity <= call.tol
                                /\ proposed.relevance - recomputed.relevance <= call.tol
                                /\ recomputed.relevance - proposed.relevance <= call.tol
                  IN  /\ s.ai_scores[i].k = s.ai_scores_proposed[i].k
                      /\ IF within THEN accepted = proposed ELSE accepted = recomputed

\* C1 witness: one call accepted the proposal of one player and replaced that of
\* another by the committee's scorecard.
C1_MixedOutcome ==
    /\ Verified
    /\ \E i, j \in DOMAIN sessions[call.sid].ai_scores :
          /\ sessions[call.sid].ai_scores[i].v = sessions[call.sid].ai_scores_proposed[i].v
          /\ sessions[call.sid].ai_scores[j].v # sessions[call.sid].ai_scores_proposed[j].v
          /\ heap[sessions[call.sid].ai_scores[j].v] = call.committee[j]
          /\ heap[sessions[call.sid].ai_scores[j].v]
                # heap[sessions[call.sid].ai_scores_proposed[j].v]

Perms(n) == {p \in [1..n -> 1..n] : \A i, j \in 1..n : p[i] = p[j] => i = j}

Reorder(s, p) == [i \in DOMAIN s |-> s[p[i]]]

\* C2: resolve_appeals leaves the same ledger balances and the same accepted
\* scores whatever the order in which the pending appeals, each with its fixed
\* adjudication decision, are processed.  Stated for bonds that are non-negative,
\* as the bonds of the claim are.
C2_OrderIndependent ==
    [][(/\ call'.op = "resolve_appeals"
        /\ result' = "ok"
        /\ \A i \in DOMAIN sessions[call'.sid].appeals :
               sessions[call'.sid].appeals[i].bond >= 0) =>
          LET s == sessions[call'.sid]
          IN  \A p \in Perms(Len(s.appeals)) :
                 LET r == ResolveLoop(Reorder(s.appeals, p), Reorder(call'.decisions, p), 1,
                                      s.ai_scores,
                                      [heap |-> heap, xp |-> season_xp, err |-> FALSE])
                 IN  r.xp = season_xp' /\ r.heap = heap']_vars

\* C3: every balance of the seasonal XP ledger is non-negative.
C3_LedgerNonNegative == \A p \in DOMAIN season_xp : season_xp[p] >= 0

\* C4: challenge_score succeeds only when the acceptance flag of the round is set
\* and the target has an accepted scorecard.
C4_ChallengeOnlyWhenAccepted ==
    (call.op = "challenge_score" /\ result = "ok") =>
        /\ sessions[call.sid].od_accepted
        /\ sessions[call.sid].appeals # <<>>
        /\ Has(sessions[call.sid].ai_scores,
               sessions[call.sid].appeals[Len(sessions[call.sid].appeals)].target)

\* C5: committee_verify_scores called on a round whose acceptance flag is set
\* fails and leaves the accepted scores as they are.
C5_VerifyNeedsProposed ==
    [][(/\ call'.op = "committee_verify_scores"
        /\ Known(call'.sid)
        /\ sessions[call'.sid].od_accepted) =>
          (/\ result' # "ok"
           /\ sessions'[call'.sid].ai_scores = sessions[call'.sid].ai_scores
           /\ heap' = heap)]_vars

\* C6: committee_verify_scores called on a round that holds no proposal fails and
\* leaves the accepted scores and the acceptance flag as they are.
C6_VerifyWithoutProposalFails ==
    [][(/\ call'.op = "committee_verify_scores"
        /\ Known(call'.sid)
        /\ sessions[call'.sid].ai_scores_proposed = <<>>) =>
          (/\ result' # "ok"
           /\ sessions'[call'.sid].ai_scores = sessions[call'.sid].ai_scores
           /\ sessions'[call'.sid].od_accepted = sessions[call'.sid].od_accepted
           /\ heap' = heap)]_vars

\* C6 witness: committee_verify_scores has failed on a round with a submission and
\* no proposal.
C6_FailedWithoutProposal ==
    /\ call.op = "committee_verify_scores"
    /\ result = "No leader proposal to verify"
    /\ sessions[call.sid].round >= 1
    /\ sessions[call.sid].submissions # <<>>
    /\ sessions[call.sid].ai_scores_proposed = <<>>

\* C7: every scorecard of a round's proposal keeps the value the leader oracle
\* produced, whose total is the sum of its three dimensions.
C7_ProposalNeverMutated ==
    \A sid \in DOMAIN sessions :
        \A i \in DOMAIN sessions[sid].ai_scores_proposed :
            LET card == heap[sessions[sid].ai_scores_proposed[i].v]
            IN  /\ card \in LeaderCards
                /\ card.total = SumOfDimensions(card)

\* the balance of player p after the first n of the appeals, by the rule of the
\* claim: an upheld appeal credits its challenger the bond, a rejected one leaves
\* its challenger the larger of 0 and the prior balance less the bond
RECURSIVE BalanceAfter(_, _, _, _, _)
BalanceAfter(p, appeals, decisions, n, xp) ==
    IF n = 0 THEN (IF p \in DOMAIN xp THEN xp[p] ELSE 0)
    ELSE LET prior == BalanceAfter(p, appeals, decisions, n - 1, xp)
         IN  IF appeals[n].challenger # p THEN prior
             ELSE IF decisions[n] THEN prior + appeals[n].bond
             ELSE IF prior - appeals[n].bond > 0 THEN prior - appeals[n].bond
             ELSE 0

Balance(xp, p) == IF p \in DOMAIN xp THEN xp[p] ELSE 0

\* C8: resolve_appeals changes the ledger appeal by appeal: an upheld appeal with
\* bond b adds exactly b to its challenger's balance, a rejected one leaves its
\* challenger max(0, prior - b), and no other balance changes.
C8_LedgerEffect ==
    [][(call'.op = "resolve_appeals" /\ result' = "ok") =>
          LET appeals == sessions[call'.sid].appeals
          IN  /\ Len(call'.decisions) = Len(appeals)
              /\ \A p \in Players \cup DOMAIN season_xp' :
                    Balance(season_xp', p)
                       = BalanceAfter(p, appeals, call'.decisions, Len(appeals), season_xp)]_vars

\* C8 witness: one call of resolve_appeals has upheld one appeal and rejected
\* another.
C8_UpheldAndRejected ==
    /\ Resolved
    /\ \E i, j \in DOMAIN call.decisions : call.decisions[i] /\ ~call.decisions[j]

\* C9: resolve_appeals on a known session succeeds, empties the pending list and
\* raises each accepted total by 2 for every upheld appeal against that player and
\* by nothing else; with nothing pending it changes neither scores nor ledger.
C9_EachAppealOnce ==
    [][(call'.op = "resolve_appeals" /\ Known(call'.sid)) =>
          LET s == sessions[call'.sid]
              upheld(t) == {j \in DOMAIN s.appeals : s.appeals[j].target = t
                                                       /\ call'.decisions[j]}
          IN  /\ result' = "ok"
              /\ sessions'[call'.sid].appeals = <<>>
              /\ sessions'[call'.sid].ai_scores = s.ai_scores
              /\ \A i \in DOMAIN s.ai_scores :
                    heap'[s.ai_scores[i].v].total
                       = heap[s.ai_scores[i].v].total + 2 * Cardinality(upheld(s.ai_scores[i].k))
              /\ s.appeals = <<>> => UNCHANGED state]_vars

\* C9 witness: resolve_appeals has run with nothing pending on a round in which an
\* earlier resolution had corrected an accepted total.
C9_SecondResolve ==
    /\ Resolved
    /\ call.decisions = <<>>
    /\ \E i \in DOMAIN sessions[call.sid].ai_scores :
          LET card == heap[sessions[call.sid].ai_scores[i].v]
          IN  card.total > SumOfDimensions(card)

\* C10: a call that fails leaves the sessions, the XP ledger and the next session
\* id as they were before the call.
C10_FailureChangesNothing ==
    [][result' # "ok" => UNCHANGED state]_vars

\* C10 witness: a call has failed on a contract that holds a round with a
\* submission and a credited ledger.
C10_FailedOnLiveRound ==
    /\ result # "ok"
    /\ Known(call.sid)
    /\ sessions[call.sid].submissions # <<>>
    /\ \E p \in DOMAIN season_xp : season_xp[p] > 0

Finalized == call.op = "finalize_round" /\ result = "ok"

VotesFor(sess, p) == IF p \in DOMAIN sess.votes THEN sess.votes[p] ELSE 0

\* the total of the accepted scorecard of player p, 0 when there is none
AcceptedTotal(sess, h, p) ==
    IF \E i \in DOMAIN sess.ai_scores : sess.ai_scores[i].k = p
    THEN h[sess.ai_scores[CHOOSE i \in DOMAIN sess.ai_scores : sess.ai_scores[i].k = p].v].total
    ELSE 0

FinalOf(sess, p) ==
    sess.final_scores[CHOOSE i \in DOMAIN sess.final_scores : sess.final_scores[i].k = p].v

\* C11 as stated: a round that holds a final score for some player has its
\* acceptance flag set.
C11_FinalOnlyAfterAcceptance ==
    \A sid \in DOMAIN sessions :
        sessions[sid].final_scores # <<>> => sessions[sid].od_accepted

\* C11 as amended: a round may hold final scores without having been accepted;
\* every player holding a final score has a submission in the current round, and
\* right after finalize_round the final score of a player without an accepted
\* scorecard is human_weight * vote_count, with no AI part.
C11_FinalWithoutAcceptance ==
    \A sid \in DOMAIN sessions :
        /\ \A i \in DOMAIN sessions[sid].final_scores :
              \E j \in DOMAIN sessions[sid].submissions :
                  sessions[sid].submissions[j].k = sessions[sid].final_scores[i].k
        /\ (Finalized /\ call.sid = sid) =>
              \A i \in DOMAIN sessions[sid].final_scores :
                  (\A j \in DOMAIN sessions[sid].ai_scores :
                       sessions[sid].ai_scores[j].k # sessions[sid].final_scores[i].k)
                  => sessions[sid].final_scores[i].v
                        = call.weights[1] * VotesFor(sessions[sid], sessions[sid].final_scores[i].k)

\* C11 witness: finalize_round has produced a final score on a round that holds a
\* proposal and was never accepted.
C11_FinalizedUnaccepted ==
    /\ Finalized
    /\ sessions[call.sid].final_scores # <<>>
    /\ sessions[call.sid].ai_scores_proposed # <<>>
    /\ sessions[call.sid].ai_scores = <<>>
    /\ ~sessions[call.sid].od_accepted

\* C12: finalize_round leaves a final score for exactly the players with a
\* submission, equal to human_weight * vote_count + ai_weight * accepted_total,
\* with 0 votes for a player nobody voted for and total 0 for a player without an
\* accepted scorecard; it succeeds whatever the phase of the round.
C12_FinalScoreFormula ==
    [][(call'.op = "finalize_round" /\ Known(call'.sid)) =>
          LET s == sessions[call'.sid]
              t == sessions'[call'.sid]
          IN  /\ result' = "ok"
              /\ {t.final_scores[i].k : i \in DOMAIN t.final_scores}
                    = {s.submissions[i].k : i \in DOMAIN s.submissions}
              /\ \A i, j \in DOMAIN t.final_scores :
                    t.final_scores[i].k = t.final_scores[j].k => i = j
              /\ \A i \in DOMAIN t.final_scores :
                    t.final_scores[i].v
                       = call'.weights[1] * VotesFor(s, t.final_scores[i].k)
                         + call'.weights[2] * AcceptedTotal(s, heap, t.final_scores[i].k)]_vars

\* C12 witness: the scenario with one player at 0 votes and accepted total 18,
\* the other at 1 vote and accepted total 15, weights 0.6 and 0.4 in tenths: the
\* finals are 7.2 and 6.6 and the first player is ranked above the second.
C12_Scenario ==
    /\ Finalized
    /\ call.weights = <<6, 4>>
    /\ \E a, b \in Players :
          LET s == sessions[call.sid]
          IN  /\ a # b
              /\ Has(s.final_scores, a) /\ Has(s.final_scores, b)
              /\ VotesFor(s, a) = 0 /\ AcceptedTotal(s, heap, a) = 18
              /\ VotesFor(s, b) = 1 /\ AcceptedTotal(s, heap, b) = 15
              /\ FinalOf(s, a) = 72 /\ FinalOf(s, b) = 66
              /\ season_xp = (a :> 15) @@ (b :> 13)

\* the bonus by zero-based rank, as the claim lists it
BonusTable(rank) ==
    CASE rank = 0 -> 10
      [] rank = 1 -> 8
      [] rank = 2 -> 6
      [] rank = 3 -> 4
      [] rank = 4 -> 2
      [] OTHER -> 0

\* C13: each finalize_round ranks the players holding a final score by final
\* score descending, ties in the order of first submission, and adds
\* 5 + BonusTable(rank) to the balance of the player at each rank and nothing to
\* any other balance; a strictly higher final score never earns less XP.
C13_XpByRank ==
    [][(call'.op = "finalize_round" /\ result' = "ok") =>
          LET s == sessions'[call'.sid]
              fs == s.final_scores
              submitted(p) == CHOOSE i \in DOMAIN s.submissions : s.submissions[i].k = p
              rank(i) == Cardinality({j \in DOMAIN fs : fs[j].v > fs[i].v})
                         + Cardinality({j \in DOMAIN fs :
                                           /\ fs[j].v = fs[i].v
                                           /\ submitted(fs[j].k) < submitted(fs[i].k)})
              gain(p) == Balance(season_xp', p) - Balance(season_xp, p)
          IN  /\ \A i \in DOMAIN fs : gain(fs[i].k) = 5 + BonusTable(rank(i))
              /\ \A i, j \in DOMAIN fs : fs[i].v > fs[j].v => gain(fs[i].k) >= gain(fs[j].k)
              /\ \A p \in DOMAIN season_xp' :
                    (\A i \in DOMAIN fs : fs[i].k # p) =>
                        p \in DOMAIN season_xp /\ season_xp'[p] = season_xp[p]]_vars

\* C13 witness: finalize_round has run twice on a table of seven with tied final
\* scores: the player ranked first both times holds 30 XP, the two ranked sixth
\* and seventh hold 10 XP each.
C13_SevenRankedTwice ==
    /\ Finalized
    /\ Len(sessions[call.sid].final_scores) = 7
    /\ \E i, j \in DOMAIN sessions[call.sid].final_scores :
          /\ i # j
          /\ sessions[call.sid].final_scores[i].v = sessions[call.sid].final_scores[j].v
    /\ \E p, q, r \in DOMAIN season_xp :
          /\ q # r
          /\ season_xp[p] = 30
          /\ season_xp[q] = 10
          /\ season_xp[r] = 10

\* C14: only finalize_round and resolve_appeals change the XP ledger, and
\* finalize_round lowers no balance.
C14_LedgerWriters ==
    [][/\ call'.op \notin {"finalize_round", "resolve_appeals"} => season_xp' = season_xp
       /\ call'.op = "finalize_round" =>
             \A p \in DOMAIN season_xp :
                 p \in DOMAIN season_xp' /\ season_xp'[p] >= season_xp[p]]_vars

\* C14 witness: start_round has begun a new round while the ledger held the
\* XP of the round before.
C14_LedgerSurvivesRound ==
    /\ call.op = "start_round"
    /\ result = "ok"
    /\ \E p \in DOMAIN season_xp : season_xp[p] >= 15

\* C15: a successful start_round adds exactly 1 to the round counter, leaves
\* submissions, votes, proposed, accepted and final scores and pending appeals
\* empty and the acceptance flag clear, and keeps host, membership and capacity.
C15_RoundReset ==
    [][(call'.op = "start_round" /\ Known(call'.sid)) =>
          LET s == sessions[call'.sid]
              t == sessions'[call'.sid]
          IN  /\ result' = "ok"
              /\ t.round = s.round + 1
              /\ t.submissions = <<>>
              /\ DOMAIN t.votes = {}
              /\ t.ai_scores_proposed = <<>>
              /\ t.ai_scores = <<>>
              /\ t.final_scores = <<>>
              /\ t.appeals = <<>>
              /\ ~t.od_accepted
              /\ t.players = s.players
              /\ t.host = s.host
              /\ t.max_players = s.max_players]_vars

\* C15 witness: start_round has begun a later round of a session with two members
\* whose earlier round was submitted to and finalized.
C15_LaterRoundStarted ==
    /\ call.op = "start_round"
    /\ result = "ok"
    /\ sessions[call.sid].round >= 2
    /\ Len(sessions[call.sid].players) = 2
    /\ sessions[call.sid].submissions = <<>>
    /\ DOMAIN season_xp # {}

NoDuplicates(seq) == \A i, j \in DOMAIN seq : seq[i] = seq[j] => i = j

\* C16: join_session by a member changes nothing; by a non-member of a session
\* whose member count has reached max_players it fails and admits nobody;
\* otherwise it appends exactly that player.  Every session's membership is free
\* of duplicates and no larger than max_players.
C16_Membership ==
    [][/\ \A sid \in DOMAIN sessions' :
             /\ NoDuplicates(sessions'[sid].players)
             /\ Len(sessions'[sid].players) <= sessions'[sid].max_players
       /\ (call'.op = "join_session" /\ Known(call'.sid)) =>
             LET s == sessions[call'.sid]
                 t == sessions'[call'.sid]
                 member == \E i \in DOMAIN s.players : s.players[i] = call'.player
             IN  IF member
                 THEN result' = "ok" /\ UNCHANGED state
                 ELSE IF Len(s.players) >= s.max_players
                 THEN result' = "Session is full" /\ UNCHANGED state
                 ELSE /\ result' = "ok"
                      /\ t = [s EXCEPT !.players = s.players \o <<call'.player>>]]_vars

\* C17: every player holding an accepted scorecard has a submission in the
\* current round, and while the round is accepted the holders of an accepted
\* scorecard are exactly the holders of a proposed scorecard.
C17_AcceptedCoversProposal ==
    \A sid \in DOMAIN sessions :
        /\ Keys(sessions[sid].ai_scores) \subseteq Keys(sessions[sid].submissions)
        /\ sessions[sid].od_accepted =>
               Keys(sessions[sid].ai_scores) = Keys(sessions[sid].ai_scores_proposed)

\* C17 witness: an accepted round with two accepted scorecards.
C17_TwoAccepted ==
    \E sid \in DOMAIN sessions :
        /\ sessions[sid].od_accepted
        /\ Len(sessions[sid].ai_scores) = 2

\* C18: vote fails, changing nothing, when voter or target is not a member or
\* the target has no submission; otherwise it adds exactly one to the target's
\* count and changes nothing else, self-votes and repeated votes included.  No
\* other operation but start_round, which empties them, touches the counts, and
\* only players with a submission have a count.
C18_VoteCounts ==
    [][/\ \A sid \in DOMAIN sessions' :
             DOMAIN sessions'[sid].votes \subseteq Keys(sessions'[sid].submissions)
       /\ \A sid \in DOMAIN sessions' :
             IF sid \notin DOMAIN sessions
             THEN DOMAIN sessions'[sid].votes = {}
             ELSE IF call'.op = "start_round" /\ call'.sid = sid
             THEN DOMAIN sessions'[sid].votes = {}
             ELSE IF call'.op = "vote" /\ call'.sid = sid
             THEN LET s == sessions[sid]
                      member(p) == \E i \in DOMAIN s.players : s.players[i] = p
                      submitted(p) == \E i \in DOMAIN s.submissions : s.submissions[i].k = p
                  IN  IF member(call'.player) /\ member(call'.target) /\ submitted(call'.target)
                      THEN /\ result' = "ok"
                           /\ sessions'[sid].votes =
                                  [p \in DOMAIN s.votes \cup {call'.target} |->
                                      IF p = call'.target THEN VotesFor(s, p) + 1
                                      ELSE s.votes[p]]
                           /\ sessions'[sid] = [s EXCEPT !.votes = sessions'[sid].votes]
                           /\ UNCHANGED <<season_xp, next_session_id, heap>>
                      ELSE result' # "ok" /\ UNCHANGED state
             ELSE sessions'[sid].votes = sessions[sid].votes]_vars

\* C18 witness: a member has voted for themself a second time.
C18_RepeatedSelfVote ==
    /\ call.op = "vote"
    /\ result = "ok"
    /\ call.player = call.target
    /\ sessions[call.sid].votes[call.target] >= 2

\* C19: a round that holds a non-empty proposal holds a non-empty proposal after
\* every step other than a start_round of its session.
C19_ProposalStays ==
    [][\A sid \in DOMAIN sessions :
          (sessions[sid].ai_scores_proposed # <<>>
           /\ ~(call'.op = "start_round" /\ call'.sid = sid))
          => sessions'[sid].ai_scores_proposed # <<>>]_vars

\* C19 witness: a round that was verified, appealed and finalized still holds
\* its proposal.
C19_ProposalAfterFinalize ==
    /\ Finalized
    /\ sessions[call.sid].od_accepted
    /\ sessions[call.sid].ai_scores_proposed # <<>>
    /\ \E p \in DOMAIN season_xp : season_xp[p] = 0

\* C20: the target of every pending appeal holds an accepted scorecard, and
\* resolve_appeals on a known session succeeds and leaves no appeal pending.
C20_AppealTargetsAccepted ==
    /\ \A sid \in DOMAIN sessions :
          \A i \in DOMAIN sessions[sid].appeals :
              Has(sessions[sid].ai_scores, sessions[sid].appeals[i].target)
    /\ (call.op = "resolve_appeals" /\ Known(call.sid)) =>
           result = "ok" /\ sessions[call.sid].appeals = <<>>

\* C20 witness: committee_verify_scores has run again while an
\* appeal was pending.
C20_VerifiedAgainWhilePending ==
    /\ Verified
    /\ sessions[call.sid].appeals # <<>>

====
